---- MODULE Spec2Model ----
(***************************************************************************)
(* Model of the authentication / authorization core of the tax-collection  *)
(* backend: auth/auth.py, auth/authcheck.py, controller/user.py,           *)
(* controller/token.py and the routes of service/auth.py, service/user.py. *)
(*                                                                         *)
(* Time is an integer clock counted in ticks of 1/TicksPerSec second, so   *)
(* that the whole-second truncation of the JWT library and the             *)
(* sub-second datetime comparison of tokenValidation can be told apart.    *)
(***************************************************************************)
EXTENDS Integers, Sequences, FiniteSets, TLC

VARIABLES now, advances, users, revoked, issued, nextJti, loggedOut, resp,
          houses, assignments, taxRecords, insertedBy, pending

vars == <<now, advances, users, revoked, issued, nextJti, loggedOut, resp,
          houses, assignments, taxRecords, insertedBy, pending>>

-----------------------------------------------------------------------------
(* Bounds of the model *)

TicksPerSec == 2
MaxAdvances == 2
MaxJti == 3
MaxAssignments == 2
MaxRecords == 3
MaxInFlight == 2

-----------------------------------------------------------------------------
(* auth/authconstants.py *)

ACCESS_TOKEN_EXPIRE_MINUTES == 30
REFRESH_TOKEN_EXPIRE_DAYS == 7
ACCESS_SECRET_KEY == "your_secret_key"
REFRESH_SECRET_KEY == "your_refresh_secret_key"
ACCESS_TOKEN_TYPE == "ACCESS"
REFRESH_TOKEN_TYPE == "REFRESH"

(* service/constants.py *)

COULD_NOT_VALIDATE_CREDENTIALS == "Could not validate credentials"
TOKEN_EXPIRED == "Token expired"
INVALID_CREDENTIALS == "Incorrect username or password"
USER_NOT_FOUND == "User not found"
INVALID_TOKEN == "Invalid token"
INVALID_REFRESH_TOKEN == "Invalid refresh token"
LOGGED_OUT_SUCCESSFULLY == "Logged out successfully"
INSUFFICIENT_PERMISSIONS == "Not enough permissions"
USER_ROLE_ADMIN == "ADMIN"
USER_ROLE_COLLECTOR == "COLLECTOR"
INVALID_VOLUNTEER_DETAILS == "Invalid volunteer details"
INVALID_HOUSE_NUMBER == "Invalid house number"
ONLY_COLLECTORS_RECORD_TAX_COLLECTION == "Only collectors can record tax collection"
INCORRECT_HOUSE_MAPPING == "You are not assigned to this household"
RECORD_NOT_FOUND == "Record not found"
USERNAME_ALREADY_REGISTERED == "Username already registered"

(* Messages produced by the framework, not by the repository's constants:  *)
(* OAuth2PasswordBearer without an Authorization header, and an exception  *)
(* no handler catches.                                                     *)
NOT_AUTHENTICATED == "Not authenticated"
INTERNAL_SERVER_ERROR == "Internal Server Error"

-----------------------------------------------------------------------------
(* Python values *)

(* A str | None value.  A string is kept as the sequence of its pieces,    *)
(* where a piece is either the separator "," or a comma-free chunk.        *)
None == [none |-> TRUE, chars |-> <<>>]
Str(chars) == [none |-> FALSE, chars |-> chars]

(* ",".join(labels) for comma-free labels *)
RECURSIVE Join(_)
Join(labels) ==
    IF Len(labels) = 0 THEN <<>>
    ELSE IF Len(labels) = 1 THEN <<labels[1]>>
    ELSE <<labels[1], ",">> \o Join(Tail(labels))

(* str.split(","): the list of the (possibly empty) runs between commas;   *)
(* "".split(",") is [""].  A run is the sequence of its chunks.            *)
RECURSIVE SplitFrom(_, _, _)
SplitFrom(chars, i, run) ==
    IF i > Len(chars) THEN <<run>>
    ELSE IF chars[i] = "," THEN <<run>> \o SplitFrom(chars, i + 1, <<>>)
    ELSE SplitFrom(chars, i + 1, Append(run, chars[i]))

split(s) == SplitFrom(s.chars, 1, <<>>)

Range(f) == {f[i] : i \in DOMAIN f}

(* A password string: either ordinary text, or text in the format of a     *)
(* bcrypt hash (which embeds the salt and stands for the hashed plaintext).*)
Plain(text) == [bcrypt |-> FALSE, salt |-> 0, text |-> text]
Bcrypt(salt, text) == [bcrypt |-> TRUE, salt |-> salt, text |-> text]

-----------------------------------------------------------------------------
(* auth/authcheck.py *)

(* pwd_context.hash: a bcrypt string of the plaintext under the given salt *)
hashPassword(password, salt) == Bcrypt(salt, password.text)

(* pwd_context.verify: raises (UnknownHashError) when the stored value is  *)
(* not in a hash format the context knows; otherwise compares the hash of  *)
(* the plaintext under the embedded salt with the stored hash.             *)
verifyPassword(plain_password, hashed_password) ==
    IF ~hashed_password.bcrypt
    THEN [raised |-> TRUE, val |-> FALSE]
    ELSE [raised |-> FALSE,
          val |-> /\ ~plain_password.bcrypt
                  /\ Bcrypt(hashed_password.salt, plain_password.text) = hashed_password]

-----------------------------------------------------------------------------
(* Outcome of a call: a returned value, or a raised HTTPException (status, *)
(* detail).  An exception that is not an HTTPException reaches the server  *)
(* as status 500.                                                          *)

NoVal == [kind |-> "none"]
Ok(val) == [raised |-> FALSE, status |-> 200, detail |-> "", val |-> val]
Raise(status, detail) == [raised |-> TRUE, status |-> status, detail |-> detail, val |-> NoVal]
Unhandled == Raise(500, INTERNAL_SERVER_ERROR)

-----------------------------------------------------------------------------
(* Tokens.  A token string is either not a JWT at all, or a JWT: a claims  *)
(* map together with the key its signature was made with.                  *)

NoClaims == [kind |-> "none"]
Malformed == [jwt |-> FALSE, key |-> "", claims |-> NoClaims]
Jwt(key, claims) == [jwt |-> TRUE, key |-> key, claims |-> claims]
(* A request without an Authorization header carries no token string.      *)
NoToken == [jwt |-> FALSE, key |-> "absent", claims |-> NoClaims]

Has(payload, k) == k \in DOMAIN payload

Minutes(m) == m * 60 * TicksPerSec
Days(d) == d * 24 * 60 * 60 * TicksPerSec

(* TokenManagement.__encodeToken: copy of the payload with exp and jti     *)
(* set; jwt.encode stores a datetime exp as whole seconds since the epoch. *)
(* A zero (falsy) expiresDelta means the default lifetime.  jti stands for *)
(* the value uuid4 returns.                                                *)
(* Variant: the jti is drawn once, not once per token *)
encodeTokenOneJti(payload, SECRET_KEY, expiresDelta, clock, jti) ==
    LET delta == IF expiresDelta # 0 THEN expiresDelta ELSE Minutes(ACCESS_TOKEN_EXPIRE_MINUTES)
        expire == clock + delta
        toEncode == ("exp" :> (expire \div TicksPerSec) @@ "jti" :> 0) @@ payload
    IN  Jwt(SECRET_KEY, toEncode)

encodeToken(payload, SECRET_KEY, expiresDelta, clock, jti) ==
    LET delta == IF expiresDelta # 0 THEN expiresDelta ELSE Minutes(ACCESS_TOKEN_EXPIRE_MINUTES)
        expire == clock + delta
        toEncode == ("exp" :> (expire \div TicksPerSec) @@ "jti" :> jti) @@ payload
    IN  Jwt(SECRET_KEY, toEncode)

encodeAuthToken(payload, expiresDelta, clock, jti) ==
    encodeToken(payload, ACCESS_SECRET_KEY, expiresDelta, clock, jti)

encodeRefreshToken(payload, expiresDelta, clock, jti) ==
    encodeToken(payload, REFRESH_SECRET_KEY, expiresDelta, clock, jti)

(* TokenManagement.__decodeToken: jwt.decode raises JWTError, and the      *)
(* method returns None, for a string that is not a JWT, for a signature    *)
(* made with another key, for an exp claim smaller than the current time   *)
(* in whole seconds, and for an aud claim (the call names no audience).    *)
NonePayload == [none |-> TRUE, claims |-> NoClaims]
SomePayload(claims) == [none |-> FALSE, claims |-> claims]

(* Variant: the signature is not verified against the class secret *)
decodeTokenAnyKey(token, SECRET_KEY, clock) ==
    IF ~token.jwt THEN NonePayload
    ELSE IF Has(token.claims, "exp") /\ token.claims["exp"] < (clock \div TicksPerSec)
         THEN NonePayload
    ELSE IF Has(token.claims, "aud") THEN NonePayload
    ELSE SomePayload(token.claims)

decodeToken(token, SECRET_KEY, clock) ==
    IF ~token.jwt THEN NonePayload
    ELSE IF token.key # SECRET_KEY THEN NonePayload
    ELSE IF Has(token.claims, "exp") /\ token.claims["exp"] < (clock \div TicksPerSec)
         THEN NonePayload
    ELSE IF Has(token.claims, "aud") THEN NonePayload
    ELSE SomePayload(token.claims)

decodeAuthToken(token, clock) == decodeToken(token, ACCESS_SECRET_KEY, clock)

(* Variant: refresh tokens are decoded with the access secret *)
decodeRefreshTokenAccessKey(token, clock) == decodeToken(token, ACCESS_SECRET_KEY, clock)

decodeRefreshToken(token, clock) == decodeToken(token, REFRESH_SECRET_KEY, clock)

credentialsException == Raise(401, COULD_NOT_VALIDATE_CREDENTIALS)

(* TokenManagement.tokenValidation *)
tokenValidation(token, tokenType, clock) ==
    IF tokenType \notin {ACCESS_TOKEN_TYPE, REFRESH_TOKEN_TYPE} THEN Ok(NonePayload)
    ELSE
    LET payload == IF tokenType = ACCESS_TOKEN_TYPE
                   THEN decodeAuthToken(token, clock)
                   ELSE decodeRefreshToken(token, clock)
    IN  IF payload.none THEN credentialsException
        ELSE IF /\ Has(payload.claims, "exp")
                /\ payload.claims["exp"] # 0
                /\ payload.claims["exp"] * TicksPerSec < clock
             THEN Raise(401, TOKEN_EXPIRED)
        ELSE IF ~Has(payload.claims, "sub") THEN credentialsException
        ELSE Ok(payload)

-----------------------------------------------------------------------------
(* Stores *)

(* db.get(User, username) *)
NotFound == [found |-> FALSE, user |-> NoVal]
getUserByUsername(username, userTable) ==
    IF \E u \in userTable : u.username = username
    THEN [found |-> TRUE, user |-> CHOOSE u \in userTable : u.username = username]
    ELSE NotFound

(* Number of rows of the revocation table with the given jti *)
RECURSIVE CountJti(_, _)
CountJti(rows, jti) ==
    IF rows = <<>> THEN 0
    ELSE (IF Head(rows).jti = jti THEN 1 ELSE 0) + CountJti(Tail(rows), jti)

(* controller/token.py addToken: db.add; db.commit.  jti is the primary    *)
(* key of RevokedToken: the INSERT of a jti the table already holds fails  *)
(* at commit (IntegrityError) and the table is left as it was.             *)
addToken(jti, rows) ==
    IF CountJti(rows, jti) > 0
    THEN [raised |-> TRUE, rows |-> rows]
    ELSE [raised |-> FALSE, rows |-> Append(rows, [jti |-> jti])]

-----------------------------------------------------------------------------
(* auth/auth.py *)

(* OAuth2PasswordBearer: the bearer token of the request, or 401 when the  *)
(* request has no Authorization header.                                    *)
oauth2Scheme(token) ==
    IF token = NoToken THEN Raise(401, NOT_AUTHENTICATED) ELSE Ok(token)

(* authenticateUser: the user, or None; verifyPassword is only called for  *)
(* a user that exists, and what it raises is not caught.                   *)
authenticateUser(username, password, userTable) ==
    LET user == getUserByUsername(username, userTable)
    IN  IF ~user.found THEN Ok(NotFound)
        ELSE LET v == verifyPassword(password, user.user.password)
             IN  IF v.raised THEN Unhandled
                 ELSE IF v.val THEN Ok(user)
                 ELSE Ok(NotFound)

(* Variant: the user the token names is not required to exist *)
getCurrentUserNoLookup(token, userTable, clock) ==
    LET v == tokenValidation(token, ACCESS_TOKEN_TYPE, clock)
    IN  IF v.raised THEN v
        ELSE Ok(getUserByUsername(v.val.claims["sub"], userTable).user)

(* getCurrentUser *)
getCurrentUser(token, userTable, clock) ==
    LET v == tokenValidation(token, ACCESS_TOKEN_TYPE, clock)
    IN  IF v.raised THEN v
        ELSE LET user == getUserByUsername(v.val.claims["sub"], userTable)
             IN  IF ~user.found THEN credentialsException
                 ELSE Ok(user.user)

(* Variant: the context key is the display name instead of the username *)
tokenDataKeyIsName(user) ==
    [sub |-> user.username,
     context |-> [user |-> [key |-> user.name, phone |-> user.phone],
                  roles |-> user.userRole]]

(* The claims login puts in the access token *)
tokenData(user) ==
    [sub |-> user.username,
     context |-> [user |-> [key |-> user.username, phone |-> user.phone],
                  roles |-> user.userRole]]

(* Variant: the refresh token is encoded from tokenData as well *)
loginRefreshFromTokenData(username, password, userTable, clock, jti) ==
    LET a == authenticateUser(username, password, userTable)
    IN  IF a.raised THEN a
        ELSE IF ~a.val.found THEN Raise(401, INVALID_CREDENTIALS)
        ELSE
        LET user == a.val.user
            accessToken == encodeAuthToken(tokenData(user),
                               Minutes(ACCESS_TOKEN_EXPIRE_MINUTES), clock, jti)
            refresh == encodeRefreshToken(tokenData(user),
                               Days(REFRESH_TOKEN_EXPIRE_DAYS), clock, jti + 1)
        IN  Ok([username |-> user.username,
                name |-> user.name,
                access_token |-> accessToken,
                phone |-> user.phone,
                refresh_token |-> refresh,
                userRole |-> user.userRole,
                token_type |-> "Bearer"])

(* login; jti and jti + 1 stand for the two uuid4 values it draws *)
login(username, password, userTable, clock, jti) ==
    LET a == authenticateUser(username, password, userTable)
    IN  IF a.raised THEN a
        ELSE IF ~a.val.found THEN Raise(401, INVALID_CREDENTIALS)
        ELSE
        LET user == a.val.user
            accessToken == encodeAuthToken(tokenData(user),
                               Minutes(ACCESS_TOKEN_EXPIRE_MINUTES), clock, jti)
            refresh == encodeRefreshToken([sub |-> user.username],
                               Days(REFRESH_TOKEN_EXPIRE_DAYS), clock, jti + 1)
        IN  Ok([username |-> user.username,
                name |-> user.name,
                access_token |-> accessToken,
                phone |-> user.phone,
                refresh_token |-> refresh,
                userRole |-> user.userRole,
                token_type |-> "Bearer"])

(* Variant: the new access token repeats the jti of the access token that  *)
(* login issued together with the refresh token                            *)
refreshTokenSameJti(refresh_token, userTable, clock, jti) ==
    LET v == tokenValidation(refresh_token, REFRESH_TOKEN_TYPE, clock)
    IN  IF v.raised THEN v
        ELSE IF v.val.none THEN Raise(401, INVALID_REFRESH_TOKEN)
        ELSE
        LET user == getUserByUsername(v.val.claims["sub"], userTable)
        IN  IF ~user.found THEN Raise(401, USER_NOT_FOUND)
            ELSE Ok([access_token |->
                         encodeAuthToken([sub |-> user.user.username],
                             Minutes(ACCESS_TOKEN_EXPIRE_MINUTES), clock,
                             v.val.claims["jti"] - 1),
                     token_type |-> "Bearer"])

(* Variant: the new access token gets the lifetime of a refresh token *)
refreshTokenLongLived(refresh_token, userTable, clock, jti) ==
    LET v == tokenValidation(refresh_token, REFRESH_TOKEN_TYPE, clock)
    IN  IF v.raised THEN v
        ELSE IF v.val.none THEN Raise(401, INVALID_REFRESH_TOKEN)
        ELSE
        LET user == getUserByUsername(v.val.claims["sub"], userTable)
        IN  IF ~user.found THEN Raise(401, USER_NOT_FOUND)
            ELSE Ok([access_token |->
                         encodeAuthToken([sub |-> user.user.username],
                             Days(REFRESH_TOKEN_EXPIRE_DAYS), clock, jti),
                     token_type |-> "Bearer"])

(* refreshToken *)
refreshToken(refresh_token, userTable, clock, jti) ==
    LET v == tokenValidation(refresh_token, REFRESH_TOKEN_TYPE, clock)
    IN  IF v.raised THEN v
        ELSE IF v.val.none THEN Raise(401, INVALID_REFRESH_TOKEN)
        ELSE
        LET user == getUserByUsername(v.val.claims["sub"], userTable)
        IN  IF ~user.found THEN Raise(401, USER_NOT_FOUND)
            ELSE Ok([access_token |->
                         encodeAuthToken([sub |-> user.user.username],
                             Minutes(ACCESS_TOKEN_EXPIRE_MINUTES), clock, jti),
                     token_type |-> "Bearer"])

(* Variant: the row added holds another value than the jti of the token *)
logoutWrongJti(token, rows, clock) ==
    LET v == tokenValidation(token, ACCESS_TOKEN_TYPE, clock)
    IN  IF v.raised THEN [out |-> v, rows |-> rows]
        ELSE IF v.val.none THEN [out |-> Raise(401, INVALID_TOKEN), rows |-> rows]
        ELSE
        LET added == addToken(v.val.claims["exp"], rows)
        IN  IF added.raised THEN [out |-> Unhandled, rows |-> added.rows]
            ELSE [out |-> Ok([message |-> LOGGED_OUT_SUCCESSFULLY]), rows |-> added.rows]

(* logout: the outcome and the revocation table it leaves *)
logout(token, rows, clock) ==
    LET v == tokenValidation(token, ACCESS_TOKEN_TYPE, clock)
    IN  IF v.raised THEN [out |-> v, rows |-> rows]
        ELSE IF v.val.none THEN [out |-> Raise(401, INVALID_TOKEN), rows |-> rows]
        ELSE
        LET added == addToken(v.val.claims["jti"], rows)
        IN  IF added.raised THEN [out |-> Unhandled, rows |-> added.rows]
            ELSE [out |-> Ok([message |-> LOGGED_OUT_SUCCESSFULLY]), rows |-> added.rows]

(* getCurrentAdmin: None has no split method (AttributeError) *)
getCurrentAdmin(user) ==
    IF user.userRole.none THEN Unhandled
    ELSE IF <<USER_ROLE_ADMIN>> \notin Range(split(user.userRole))
         THEN Raise(403, INSUFFICIENT_PERMISSIONS)
    ELSE Ok(user)

(* The dependency chains of the routes: Depends(getCurrentUser) resolves   *)
(* oauth2Scheme first, Depends(getCurrentAdmin) resolves getCurrentUser.   *)
currentUserDep(token, userTable, clock) ==
    LET t == oauth2Scheme(token)
    IN  IF t.raised THEN t ELSE getCurrentUser(t.val, userTable, clock)

(* Variant: the route depends on getCurrentUser where it should depend on  *)
(* getCurrentAdmin                                                         *)
currentAdminDepAnyUser(token, userTable, clock) == currentUserDep(token, userTable, clock)

(* Variant: the role is read from the context claim of the token *)
currentAdminDepFromToken(token, userTable, clock) ==
    LET u == currentUserDep(token, userTable, clock)
    IN  IF u.raised THEN u
        ELSE IF ~Has(token.claims, "context") THEN getCurrentAdmin(u.val)
        ELSE LET granted == getCurrentAdmin(
                                [u.val EXCEPT !.userRole = token.claims["context"].roles])
             IN  IF granted.raised THEN granted ELSE Ok(u.val)

currentAdminDep(token, userTable, clock) ==
    LET u == currentUserDep(token, userTable, clock)
    IN  IF u.raised THEN u ELSE getCurrentAdmin(u.val)

-----------------------------------------------------------------------------
(* controller/user.py *)

(* Variant: the row is added without looking for an existing user *)
registerNoCheck(userDetails, userTable) ==
    [out |-> Ok(userDetails), users |-> userTable \cup {userDetails}]

(* register: the outcome and the user table it leaves.  The new row holds  *)
(* the fields of the request as they are (model_dump), password included.  *)
register(userDetails, userTable) ==
    LET existing_user == getUserByUsername(userDetails.username, userTable)
    IN  IF existing_user.found
        THEN [out |-> Raise(400, USERNAME_ALREADY_REGISTERED), users |-> userTable]
        ELSE [out |-> Ok(userDetails), users |-> userTable \cup {userDetails}]

-----------------------------------------------------------------------------
(* controller/house.py *)

(* The fields of a house that the operations read: the primary key, the    *)
(* unique house number and the owner; the tax amounts are carried along.   *)
HousePOSTRequest(assessmentNumber, houseNumber, ownerName) ==
    [assessmentNumber |-> assessmentNumber, houseNumber |-> houseNumber,
     ownerName |-> ownerName]

(* getHousesByHouseNumbers: the houses whose number is in the list *)
getHousesByHouseNumbers(houseNumbers, houseTable) ==
    {h \in houseTable : h.houseNumber \in Range(houseNumbers)}

(* createHouses: db.add_all; db.commit.  The commit fails as a whole       *)
(* (IntegrityError) when a row repeats an assessmentNumber (primary key)   *)
(* or a houseNumber (unique) of the table or of the batch.                 *)
createHouses(newHouses, houseTable) ==
    LET Clash(h1, h2) == \/ h1.assessmentNumber = h2.assessmentNumber
                         \/ h1.houseNumber = h2.houseNumber
        houseNumbers == [i \in DOMAIN newHouses |-> newHouses[i].houseNumber]
        table == houseTable \cup Range(newHouses)
    IN  IF \/ \E i \in DOMAIN newHouses : \E h \in houseTable : Clash(newHouses[i], h)
           \/ \E i, j \in DOMAIN newHouses : i # j /\ Clash(newHouses[i], newHouses[j])
        THEN [out |-> Unhandled, houses |-> houseTable]
        ELSE [out |-> Ok(getHousesByHouseNumbers(houseNumbers, table)), houses |-> table]

-----------------------------------------------------------------------------
(* controller/assignment.py, service/assignment.py *)

AssignmentPOSTRequest(houseId, username) == [houseId |-> houseId, username |-> username]

(* controller assignVolunteer: db.add; db.commit.  id is the integer       *)
(* primary key the database assigns: one more than the largest id.         *)
controller_assignVolunteer(assignment, rows) ==
    Append(rows, [id |-> Len(rows) + 1,
                  houseId |-> assignment.houseId,
                  username |-> assignment.username])

(* Variant: the house is not looked up *)
assignVolunteerAnyHouse(assignment, userTable, houseTable, rows) ==
    IF ~getUserByUsername(assignment.username, userTable).found
    THEN [out |-> Raise(400, INVALID_VOLUNTEER_DETAILS), rows |-> rows]
    ELSE [out |-> Ok(assignment), rows |-> controller_assignVolunteer(assignment, rows)]

(* service assignVolunteer: the outcome and the assignment table it leaves *)
assignVolunteer(assignment, userTable, houseTable, rows) ==
    IF ~getUserByUsername(assignment.username, userTable).found
    THEN [out |-> Raise(400, INVALID_VOLUNTEER_DETAILS), rows |-> rows]
    ELSE IF getHousesByHouseNumbers(<<assignment.houseId>>, houseTable) = {}
    THEN [out |-> Raise(400, INVALID_HOUSE_NUMBER), rows |-> rows]
    ELSE [out |-> Ok(assignment), rows |-> controller_assignVolunteer(assignment, rows)]

(* getAssignmentsByUsernameAndHouseNumbers: Assignment joined with House   *)
getAssignmentsByUsernameAndHouseNumbers(username, houseNumbers, rows, houseTable) ==
    SelectSeq(rows, LAMBDA a : /\ a.username = username
                               /\ a.houseId \in Range(houseNumbers)
                               /\ \E h \in houseTable : h.houseNumber = a.houseId)

-----------------------------------------------------------------------------
(* controller/taxrecord.py, service/taxrecord.py *)

(* An amount of a PUT request may be null *)
NoAmount == [none |-> TRUE, val |-> 0]
Amount(val) == [none |-> FALSE, val |-> val]

TaxRecordPOSTRequest(amount, houseId, collectorId) ==
    [amount |-> amount, houseId |-> houseId, collectorId |-> collectorId]

(* The optional id of a PUT request body *)
NoId == [none |-> TRUE, val |-> 0]
Id(val) == [none |-> FALSE, val |-> val]

TaxRecordPUTRequest(id, amount) == [id |-> id, amount |-> amount]

(* controller insertTaxRecords: db.add_all; flush; refresh; commit.  The   *)
(* rows get consecutive ids; the fields are those of the request           *)
(* (model_dump), collectorId included.  The returned list is the new rows. *)
controller_insertTaxRecords(taxData, rows) ==
    LET new == [i \in 1..Len(taxData) |->
                   [id |-> Len(rows) + i,
                    amount |-> taxData[i].amount,
                    houseId |-> taxData[i].houseId,
                    collectorId |-> taxData[i].collectorId]]
    IN  [val |-> new, rows |-> rows \o new]

(* Variant: only the first record of the batch is checked against the      *)
(* caller's assignments                                                    *)
insertTaxRecordsFirstChecked(taxData, user, assignmentRows, houseTable, rows) ==
    IF user.userRole.none THEN [out |-> Unhandled, rows |-> rows]
    ELSE IF <<USER_ROLE_COLLECTOR>> \notin Range(split(user.userRole))
    THEN [out |-> Raise(403, ONLY_COLLECTORS_RECORD_TAX_COLLECTION), rows |-> rows]
    ELSE
    LET houseNumbers == [i \in DOMAIN taxData |-> taxData[i].houseId]
        found == getAssignmentsByUsernameAndHouseNumbers(
                     user.username, houseNumbers, assignmentRows, houseTable)
        assigned == {found[i].houseId : i \in DOMAIN found}
    IN  IF /\ <<USER_ROLE_ADMIN>> \notin Range(split(user.userRole))
           /\ taxData # <<>>
           /\ taxData[1].houseId \notin assigned
        THEN [out |-> Raise(403, INCORRECT_HOUSE_MAPPING), rows |-> rows]
        ELSE LET r == controller_insertTaxRecords(taxData, rows)
             IN  [out |-> Ok(r.val), rows |-> r.rows]

(* service insertTaxRecords: the outcome and the tax record table it       *)
(* leaves.  None has no split method (AttributeError).                     *)
insertTaxRecords(taxData, user, assignmentRows, houseTable, rows) ==
    IF user.userRole.none THEN [out |-> Unhandled, rows |-> rows]
    ELSE IF <<USER_ROLE_COLLECTOR>> \notin Range(split(user.userRole))
    THEN [out |-> Raise(403, ONLY_COLLECTORS_RECORD_TAX_COLLECTION), rows |-> rows]
    ELSE
    LET houseNumbers == [i \in DOMAIN taxData |-> taxData[i].houseId]
        found == getAssignmentsByUsernameAndHouseNumbers(
                     user.username, houseNumbers, assignmentRows, houseTable)
        assigned == {found[i].houseId : i \in DOMAIN found}
    IN  IF /\ <<USER_ROLE_ADMIN>> \notin Range(split(user.userRole))
           /\ \E i \in DOMAIN taxData : taxData[i].houseId \notin assigned
        THEN [out |-> Raise(403, INCORRECT_HOUSE_MAPPING), rows |-> rows]
        ELSE LET r == controller_insertTaxRecords(taxData, rows)
             IN  [out |-> Ok(r.val), rows |-> r.rows]

(* getTaxRecordById: db.get(TaxRecord, recordId) *)
NoRecord == [found |-> FALSE, at |-> 0]
getTaxRecordById(recordId, rows) ==
    IF \E i \in DOMAIN rows : rows[i].id = recordId
    THEN [found |-> TRUE, at |-> CHOOSE i \in DOMAIN rows : rows[i].id = recordId]
    ELSE NoRecord

(* Variant: an absent amount is stored as zero *)
updateTaxRecordByIdNullAmount(recordId, updateData, user, rows) ==
    LET t == getTaxRecordById(recordId, rows)
    IN  IF ~t.found THEN [out |-> Raise(404, RECORD_NOT_FOUND), rows |-> rows]
        ELSE IF user.userRole.none THEN [out |-> Unhandled, rows |-> rows]
        ELSE IF /\ <<USER_ROLE_ADMIN>> \notin Range(split(user.userRole))
                /\ user.username # rows[t.at].collectorId
        THEN [out |-> Raise(401, INSUFFICIENT_PERMISSIONS), rows |-> rows]
        ELSE
        LET taxRecord == [rows[t.at] EXCEPT !.amount = updateData.amount.val]
        IN  [out |-> Ok(taxRecord), rows |-> [rows EXCEPT ![t.at] = taxRecord]]

(* service updateTaxRecordById with controller updateTaxRecordById         *)
(* (db.add; db.commit): the outcome and the tax record table it leaves.    *)
updateTaxRecordById(recordId, updateData, user, rows) ==
    LET t == getTaxRecordById(recordId, rows)
    IN  IF ~t.found THEN [out |-> Raise(404, RECORD_NOT_FOUND), rows |-> rows]
        ELSE IF user.userRole.none THEN [out |-> Unhandled, rows |-> rows]
        ELSE IF /\ <<USER_ROLE_ADMIN>> \notin Range(split(user.userRole))
                /\ user.username # rows[t.at].collectorId
        THEN [out |-> Raise(401, INSUFFICIENT_PERMISSIONS), rows |-> rows]
        ELSE
        LET taxRecord == IF updateData.amount.none THEN rows[t.at]
                         ELSE [rows[t.at] EXCEPT !.amount = updateData.amount.val]
        IN  [out |-> Ok(taxRecord), rows |-> [rows EXCEPT ![t.at] = taxRecord]]

-----------------------------------------------------------------------------
(* Inputs of the requests *)

(* Login forms: the seeded users with their passwords, a wrong password    *)
(* for a seeded user, the user that register may create with the right and *)
(* with a wrong password, and a username nobody has.                       *)
LoginForms ==
    { [username |-> "admin", password |-> Plain("admin")],
      [username |-> "admin", password |-> Plain("pw")],
      [username |-> "collector", password |-> Plain("collector")],
      [username |-> "new_user", password |-> Plain("pw")],
      [username |-> "new_user", password |-> Plain("admin")],
      [username |-> "nobody", password |-> Plain("pw")] }

UserPOSTRequest(username, password, name, userRole, phone) ==
    [username |-> username, password |-> password, name |-> name,
     userRole |-> userRole, phone |-> phone]

(* Register requests: a new collector with an ordinary password, new users *)
(* whose password text is already in bcrypt format (without a role, with   *)
(* the empty role string), and a request for a username that exists.       *)
RegisterRequests ==
    { UserPOSTRequest("new_user", Plain("pw"), "New User", Str(<<USER_ROLE_COLLECTOR>>), 987654321),
      UserPOSTRequest("new_user", Bcrypt(1, "pw"), "New User", None, 987654321),
      UserPOSTRequest("new_user", Bcrypt(1, "pw"), "New User", Str(<<>>), 987654321),
      UserPOSTRequest("admin", Plain("pw"), "Admin 2", Str(<<USER_ROLE_COLLECTOR>>), 987654321) }

(* A well-formed JWT signed with a key that is not one of the two secrets  *)
Forged ==
    Jwt("attacker_key",
        [sub |-> "admin", exp |-> REFRESH_TOKEN_EXPIRE_DAYS * 24 * 60 * 60 * 4, jti |-> 0])

BearerTokens == issued \cup {Malformed, Forged, NoToken}
RefreshStrings == issued \cup {Malformed, Forged}

ClockSteps == {1, Minutes(ACCESS_TOKEN_EXPIRE_MINUTES), Days(REFRESH_TOKEN_EXPIRE_DAYS)}

(* House batches: a new house; a new house followed by one that repeats    *)
(* the assessment number of a seeded house; one that repeats a seeded      *)
(* house number.                                                           *)
HouseBatches ==
    { << HousePOSTRequest(3, "3", "Owner 3") >>,
      << HousePOSTRequest(3, "3", "Owner 3"), HousePOSTRequest(1, "4", "Owner 4") >>,
      << HousePOSTRequest(4, "2", "Owner 4") >> }

(* Assignment requests: a seeded house to the seeded collector and to the  *)
(* user register may have created, a username nobody has, a house number   *)
(* no house has, and both.                                                 *)
AssignmentRequests ==
    { AssignmentPOSTRequest("2", "collector"),
      AssignmentPOSTRequest("1", "new_user"),
      AssignmentPOSTRequest("1", "nobody"),
      AssignmentPOSTRequest("9", "collector"),
      AssignmentPOSTRequest("9", "nobody") }

(* Tax record batches: one record for house 1 naming the collector, one    *)
(* naming another user as collectorId, and two records for houses 1 and 2. *)
TaxBatches ==
    { << TaxRecordPOSTRequest(500, "1", "collector") >>,
      << TaxRecordPOSTRequest(500, "1", "new_user") >>,
      << TaxRecordPOSTRequest(500, "1", "collector"),
         TaxRecordPOSTRequest(700, "2", "collector") >> }

RecordIds == {1, 2, 9}

(* Update requests: a new amount together with the id of another record   *)
(* in the body, and a null amount.                                         *)
UpdateRequests ==
    { TaxRecordPUTRequest(Id(2), Amount(6000)),
      TaxRecordPUTRequest(NoId, NoAmount) }

-----------------------------------------------------------------------------
(* The seeding of tests/conftest.py createTestData: the two users, their   *)
(* passwords hashed by createUserData.                                     *)

createUserData(username, password, name, userRole, phone, salt) ==
    [username |-> username,
     password |-> hashPassword(password, salt),
     name |-> name,
     userRole |-> userRole,
     phone |-> phone]

(* The server handles one request at a time: resp is the response to the   *)
(* request just handled, with the request it answers, until it has been    *)
(* sent; NoResp while the server is idle.                                  *)
NoResp ==
    [op |-> "none", req |-> NoVal, status |-> 0, detail |-> "", body |-> NoVal]

Response(op, req, out) ==
    [op |-> op, req |-> req, status |-> out.status, detail |-> out.detail, body |-> out.val]

SeededUsers ==
    { createUserData("admin", Plain("admin"), "Admin",
          Str(Join(<<USER_ROLE_ADMIN, USER_ROLE_COLLECTOR>>)), 1234567890, 1),
      createUserData("collector", Plain("collector"), "Collector",
          Str(<<USER_ROLE_COLLECTOR>>), 1234567890, 2) }

(* createTestData: houses 1 and 2, house 1 assigned to the collector, one   *)
(* tax record of house 1 collected by the collector.                       *)
SeededHouses ==
    { HousePOSTRequest(1, "1", "Jane Doe"), HousePOSTRequest(2, "2", "Jane Doe II") }

SeededAssignments == << [id |-> 1, houseId |-> "1", username |-> "collector"] >>

SeededTaxRecords ==
    << [id |-> 1, amount |-> 1000, houseId |-> "1", collectorId |-> "collector"] >>

(* insertedBy[i] is the caller whose request inserted tax record i; the    *)
(* seeded record is the collector's.                                       *)
SeededInsertedBy == << "collector" >>

(* The database file outlives the server process: when the application     *)
(* starts, the user table holds the seeded users and possibly a user that  *)
(* an earlier run registered.  No token of an earlier run is in use.       *)
Init ==
    /\ now = 0
    /\ advances = 0
    /\ \/ users = SeededUsers
       \/ \E userDetails \in RegisterRequests :
            /\ ~getUserByUsername(userDetails.username, SeededUsers).found
            /\ users = register(userDetails, SeededUsers).users
    /\ revoked = <<>>
    /\ issued = {}
    /\ nextJti = 1
    /\ loggedOut = {}
    /\ resp = NoResp
    /\ houses = SeededHouses
    /\ assignments = SeededAssignments
    /\ taxRecords = SeededTaxRecords
    /\ insertedBy = SeededInsertedBy
    /\ pending = {}

(* The same tables one day later, with sessions open: admin logged in at   *)
(* time 0 (that access token has expired), and admin, collector and the    *)
(* registered user (if its stored password lets it) have logged in now,    *)
(* each with the password it was created with.                             *)
SessionForms ==
    << [username |-> "admin", password |-> Plain("admin"), at |-> 0],
       [username |-> "admin", password |-> Plain("admin"), at |-> Days(1)],
       [username |-> "collector", password |-> Plain("collector"), at |-> Days(1)],
       [username |-> "new_user", password |-> Plain("pw"), at |-> Days(1)] >>

LoggedIn(userTable) ==
    UNION { LET out == login(SessionForms[i].username, SessionForms[i].password,
                             userTable, SessionForms[i].at, 2 * i - 1)
            IN  IF out.raised THEN {}
                ELSE {out.val.access_token, out.val.refresh_token}
            : i \in DOMAIN SessionForms }

InitStore ==
    /\ now = Days(1)
    /\ advances = 1
    /\ \/ users = SeededUsers
       \/ \E userDetails \in RegisterRequests :
            /\ ~getUserByUsername(userDetails.username, SeededUsers).found
            /\ users = register(userDetails, SeededUsers).users
    /\ revoked = <<>>
    /\ issued = LoggedIn(users)
    /\ nextJti = 2 * Len(SessionForms) + 1
    /\ loggedOut = {}
    /\ resp = NoResp
    /\ houses = SeededHouses
    /\ assignments = SeededAssignments
    /\ taxRecords = SeededTaxRecords
    /\ insertedBy = SeededInsertedBy
    /\ pending = {}

-----------------------------------------------------------------------------
(* The requests *)

storeVars == <<houses, assignments, taxRecords, insertedBy, pending>>
authVars == <<users, revoked, issued, nextJti, loggedOut>>

(* POST /token *)
Login(formData) ==
    LET out == login(formData.username, formData.password, users, now, nextJti)
    IN  /\ resp = NoResp
        /\ out.raised \/ nextJti + 1 <= MaxJti
        /\ resp' = Response("login", formData, out)
        /\ issued' = IF out.raised THEN issued
                     ELSE issued \cup {out.val.access_token, out.val.refresh_token}
        /\ nextJti' = IF out.raised THEN nextJti ELSE nextJti + 2
        /\ UNCHANGED <<now, advances, users, revoked, loggedOut>>
        /\ UNCHANGED storeVars

(* POST /token/refresh *)
Refresh(refresh_token) ==
    LET out == refreshToken(refresh_token, users, now, nextJti)
    IN  /\ resp = NoResp
        /\ out.raised \/ nextJti <= MaxJti
        /\ resp' = Response("refresh", [token |-> refresh_token], out)
        /\ issued' = IF out.raised THEN issued ELSE issued \cup {out.val.access_token}
        /\ nextJti' = IF out.raised THEN nextJti ELSE nextJti + 1
        /\ UNCHANGED <<now, advances, users, revoked, loggedOut>>
        /\ UNCHANGED storeVars

(* POST /logout, dependencies=[Depends(getCurrentUser)] *)
Logout(token) ==
    LET dep == currentUserDep(token, users, now)
        r == IF dep.raised THEN [out |-> dep, rows |-> revoked]
             ELSE logout(token, revoked, now)
    IN  /\ resp = NoResp
        /\ resp' = Response("logout", [token |-> token], r.out)
        /\ revoked' = r.rows
        /\ loggedOut' = IF r.out.raised THEN loggedOut ELSE loggedOut \cup {token}
        /\ UNCHANGED <<now, advances, users, issued, nextJti>>
        /\ UNCHANGED storeVars

(* POST /register, dependencies=[Depends(getCurrentAdmin)] *)
Register(token, userDetails) ==
    LET dep == currentAdminDep(token, users, now)
        r == IF dep.raised THEN [out |-> dep, users |-> users]
             ELSE register(userDetails, users)
    IN  /\ resp = NoResp
        /\ resp' = Response("register", [token |-> token, userDetails |-> userDetails],
                            r.out)
        /\ users' = r.users
        /\ UNCHANGED <<now, advances, revoked, issued, nextJti, loggedOut>>
        /\ UNCHANGED storeVars

(* A request to a route that only depends on getCurrentUser *)
CurrentUser(token) ==
    /\ resp = NoResp
    /\ resp' = Response("getCurrentUser", [token |-> token],
                        currentUserDep(token, users, now))
    /\ UNCHANGED <<now, advances, users, revoked, issued, nextJti, loggedOut>>
    /\ UNCHANGED storeVars

(* A request to a route that only depends on getCurrentAdmin *)
CurrentAdmin(token) ==
    /\ resp = NoResp
    /\ resp' = Response("getCurrentAdmin", [token |-> token],
                        currentAdminDep(token, users, now))
    /\ UNCHANGED <<now, advances, users, revoked, issued, nextJti, loggedOut>>
    /\ UNCHANGED storeVars

(* Time passes *)
(* The response is sent and the server is idle again *)
Respond ==
    /\ resp # NoResp
    /\ resp' = NoResp
    /\ UNCHANGED <<now, advances, users, revoked, issued, nextJti, loggedOut>>
    /\ UNCHANGED storeVars

(* Time passes between two requests *)
Tick(d) ==
    /\ resp = NoResp
    /\ advances < MaxAdvances
    /\ now' = now + d
    /\ advances' = advances + 1
    /\ UNCHANGED <<users, revoked, issued, nextJti, loggedOut, resp>>
    /\ UNCHANGED storeVars

Next ==
    \/ \E formData \in LoginForms : Login(formData)
    \/ \E t \in RefreshStrings : Refresh(t)
    \/ \E t \in BearerTokens : Logout(t)
    \/ \E t \in BearerTokens, userDetails \in RegisterRequests : Register(t, userDetails)
    \/ \E t \in BearerTokens : CurrentUser(t)
    \/ \E t \in BearerTokens : CurrentAdmin(t)
    \/ Respond
    \/ \E d \in ClockSteps : Tick(d)

Spec == Init /\ [][Next]_vars

-----------------------------------------------------------------------------
(* The routes of the houses, assignments and tax records *)

(* POST /house, dependencies=[Depends(getCurrentUser)] *)
CreateHouses(token, newHouses) ==
    LET dep == currentUserDep(token, users, now)
        r == IF dep.raised THEN [out |-> dep, houses |-> houses]
             ELSE createHouses(newHouses, houses)
    IN  /\ resp = NoResp
        /\ resp' = Response("createHouses", [token |-> token, houses |-> newHouses], r.out)
        /\ houses' = r.houses
        /\ UNCHANGED <<now, advances, assignments, taxRecords, insertedBy, pending>>
        /\ UNCHANGED authVars

(* POST /assign-collector, dependencies=[Depends(getCurrentAdmin)] *)
AssignVolunteer(token, assignment) ==
    LET dep == currentAdminDep(token, users, now)
        r == IF dep.raised THEN [out |-> dep, rows |-> assignments]
             ELSE assignVolunteer(assignment, users, houses, assignments)
    IN  /\ resp = NoResp
        /\ Len(r.rows) <= MaxAssignments
        /\ resp' = Response("assignVolunteer",
                            [token |-> token, assignment |-> assignment], r.out)
        /\ assignments' = r.rows
        /\ UNCHANGED <<now, advances, houses, taxRecords, insertedBy, pending>>
        /\ UNCHANGED authVars

(* POST /recordcollections, user=Depends(getCurrentUser) *)
InsertTaxRecords(token, taxData) ==
    LET dep == currentUserDep(token, users, now)
        r == IF dep.raised THEN [out |-> dep, rows |-> taxRecords]
             ELSE insertTaxRecords(taxData, dep.val, assignments, houses, taxRecords)
    IN  /\ resp = NoResp
        /\ Len(r.rows) <= MaxRecords
        /\ resp' = Response("insertTaxRecords", [token |-> token, taxData |-> taxData],
                            r.out)
        /\ taxRecords' = r.rows
        /\ insertedBy' = [i \in DOMAIN r.rows |->
                             IF i \in DOMAIN insertedBy THEN insertedBy[i]
                             ELSE dep.val.username]
        /\ UNCHANGED <<now, advances, houses, assignments, pending>>
        /\ UNCHANGED authVars

(* PUT /tax-record/{recordId}, user=Depends(getCurrentUser) *)
UpdateTaxRecordById(token, recordId, updateData) ==
    LET dep == currentUserDep(token, users, now)
        r == IF dep.raised THEN [out |-> dep, rows |-> taxRecords]
             ELSE updateTaxRecordById(recordId, updateData, dep.val, taxRecords)
    IN  /\ resp = NoResp
        /\ resp' = Response("updateTaxRecordById",
                            [token |-> token, recordId |-> recordId,
                             updateData |-> updateData], r.out)
        /\ taxRecords' = r.rows
        /\ UNCHANGED <<now, advances, houses, assignments, insertedBy, pending>>
        /\ UNCHANGED authVars

(* The tokens requests carry: every token issued, or none *)
SessionTokens == issued \cup {NoToken}

(* Every state-changing route, each with one request that can succeed *)
NextStore ==
    \/ \E t \in SessionTokens :
           CreateHouses(t, << HousePOSTRequest(3, "3", "Owner 3") >>)
    \/ \E t \in SessionTokens :
           AssignVolunteer(t, AssignmentPOSTRequest("2", "collector"))
    \/ \E t \in SessionTokens :
           InsertTaxRecords(t, << TaxRecordPOSTRequest(500, "1", "collector") >>)
    \/ \E t \in SessionTokens :
           UpdateTaxRecordById(t, 1, TaxRecordPUTRequest(NoId, Amount(6000)))
    \/ \E t \in SessionTokens : Logout(t)
    \/ \E t \in SessionTokens, userDetails \in RegisterRequests : Register(t, userDetails)
    \/ Respond

SpecStore == InitStore /\ [][NextStore]_vars

(* The houses, assignments and tax records with all their inputs, for the  *)
(* callers that hold an access token or none                               *)
AccessTokens == {t \in issued : t.key = ACCESS_SECRET_KEY} \cup {NoToken}

NextTax ==
    \/ \E t \in AccessTokens, newHouses \in HouseBatches : CreateHouses(t, newHouses)
    \/ \E t \in AccessTokens, assignment \in AssignmentRequests :
           AssignVolunteer(t, assignment)
    \/ \E t \in AccessTokens, taxData \in TaxBatches : InsertTaxRecords(t, taxData)
    \/ \E t \in AccessTokens, recordId \in RecordIds, updateData \in UpdateRequests :
           UpdateTaxRecordById(t, recordId, updateData)
    \/ Respond

SpecTax == InitStore /\ [][NextTax]_vars

-----------------------------------------------------------------------------
(* Logout requests served concurrently.  The routes are plain functions,   *)
(* which the framework runs on worker threads: a request can be between    *)
(* its token validation and its INSERT while another one runs.  pending    *)
(* holds the logout requests that have validated their token and read its  *)
(* jti and have not called addToken yet; raced records that another        *)
(* request for the same token was in that position at the same time.       *)

(* POST /logout up to jti = payload.get("jti"): the dependency             *)
(* getCurrentUser, then logout's own tokenValidation                       *)
LogoutValidate(token) ==
    LET dep == currentUserDep(token, users, now)
        v == IF dep.raised THEN dep ELSE tokenValidation(token, ACCESS_TOKEN_TYPE, now)
        out == IF v.raised THEN v
               ELSE IF v.val.none THEN Raise(401, INVALID_TOKEN)
               ELSE Ok(v.val.claims["jti"])
        free == {i \in 1..MaxInFlight : \A p \in pending : p.id # i}
    IN  /\ resp = NoResp
        /\ IF out.raised
           THEN /\ resp' = Response("logout", [token |-> token], out)
                /\ UNCHANGED pending
           ELSE /\ free # {}
                /\ pending' =
                       {[q EXCEPT !.raced = q.raced \/ q.token = token] : q \in pending}
                       \cup {[id |-> CHOOSE i \in free : \A j \in free : i <= j,
                              token |-> token, jti |-> out.val,
                              raced |-> \E q \in pending : q.token = token]}
                /\ UNCHANGED resp
        /\ UNCHANGED <<now, advances, houses, assignments, taxRecords, insertedBy>>
        /\ UNCHANGED authVars

(* POST /logout from addToken on: the INSERT and the answer *)
LogoutCommit(p) ==
    LET added == addToken(p.jti, revoked)
        out == IF added.raised THEN Unhandled
               ELSE Ok([message |-> LOGGED_OUT_SUCCESSFULLY])
    IN  /\ resp = NoResp
        /\ resp' = Response("logout", [token |-> p.token], out)
        /\ revoked' = added.rows
        /\ loggedOut' = IF out.raised THEN loggedOut ELSE loggedOut \cup {p.token}
        /\ pending' = pending \ {p}
        /\ UNCHANGED <<now, advances, users, issued, nextJti>>
        /\ UNCHANGED <<houses, assignments, taxRecords, insertedBy>>

NextConcurrent ==
    \/ \E t \in SessionTokens : LogoutValidate(t)
    \/ \E p \in pending : LogoutCommit(p)
    \/ Respond

SpecConcurrent == InitStore /\ [][NextConcurrent]_vars

-----------------------------------------------------------------------------
(* Register requests served concurrently: a request can be between its     *)
(* lookup of the username and its INSERT while another one runs.  pending  *)
(* holds the register requests that found no user of their username and    *)
(* have not added theirs yet; raced records that another request for the   *)
(* same username was in that position at the same time.                    *)

(* POST /register up to the existence check: the dependency                *)
(* getCurrentAdmin, then db.get(User, userDetails.username)                *)
RegisterCheck(token, userDetails) ==
    LET dep == currentAdminDep(token, users, now)
        existing_user == getUserByUsername(userDetails.username, users)
        out == IF dep.raised THEN dep
               ELSE IF existing_user.found THEN Raise(400, USERNAME_ALREADY_REGISTERED)
               ELSE Ok(userDetails)
        free == {i \in 1..MaxInFlight : \A p \in pending : p.id # i}
        Same(q) == q.userDetails.username = userDetails.username
    IN  /\ resp = NoResp
        /\ IF out.raised
           THEN /\ resp' = Response("register",
                                    [token |-> token, userDetails |-> userDetails], out)
                /\ UNCHANGED pending
           ELSE /\ free # {}
                /\ pending' =
                       {[q EXCEPT !.raced = q.raced \/ Same(q)] : q \in pending}
                       \cup {[id |-> CHOOSE i \in free : \A j \in free : i <= j,
                              token |-> token, userDetails |-> userDetails,
                              raced |-> \E q \in pending : Same(q)]}
                /\ UNCHANGED resp
        /\ UNCHANGED <<now, advances, houses, assignments, taxRecords, insertedBy>>
        /\ UNCHANGED authVars

(* POST /register from db.add on: username is the primary key of User, so  *)
(* the INSERT of a username the table holds by now fails at commit         *)
(* (IntegrityError), which nothing catches.                                *)
RegisterCommit(p) ==
    LET taken == getUserByUsername(p.userDetails.username, users).found
        out == IF taken THEN Unhandled ELSE Ok(p.userDetails)
    IN  /\ resp = NoResp
        /\ resp' = Response("register",
                            [token |-> p.token, userDetails |-> p.userDetails], out)
        /\ users' = IF taken THEN users ELSE users \cup {p.userDetails}
        /\ pending' = pending \ {p}
        /\ UNCHANGED <<now, advances, revoked, issued, nextJti, loggedOut>>
        /\ UNCHANGED <<houses, assignments, taxRecords, insertedBy>>

NextConcurrentRegister ==
    \/ \E t \in AccessTokens, userDetails \in RegisterRequests : RegisterCheck(t, userDetails)
    \/ \E p \in pending : RegisterCommit(p)
    \/ Respond

SpecConcurrentRegister == InitStore /\ [][NextConcurrentRegister]_vars

-----------------------------------------------------------------------------
(* Tokens of an earlier database.  The two secrets are constants of the    *)
(* source, so a token that login issued keeps a valid signature when the   *)
(* database file is replaced (as every test does) or a row is rewritten.   *)
(* The earlier user table had a user the present one lacks, had the        *)
(* collector with the ADMIN role, and the admin with the COLLECTOR role     *)
(* only.                                                                   *)
EarlierUsers ==
    { createUserData("nobody", Plain("pw"), "Nobody",
          Str(<<USER_ROLE_COLLECTOR>>), 5550000, 3),
      createUserData("collector", Plain("collector"), "Collector",
          Str(<<USER_ROLE_ADMIN>>), 1234567890, 2),
      createUserData("admin", Plain("admin"), "Admin",
          Str(<<USER_ROLE_COLLECTOR>>), 1234567890, 1) }

EarlierForms ==
    << [username |-> "nobody", password |-> Plain("pw")],
       [username |-> "collector", password |-> Plain("collector")],
       [username |-> "admin", password |-> Plain("admin")] >>

(* The token pairs login returned for them at the given time *)
EarlierSessions(clock) ==
    UNION { LET out == login(EarlierForms[i].username, EarlierForms[i].password,
                             EarlierUsers, clock, 0 - 2 * i - 1)
            IN  {out.val.access_token, out.val.refresh_token}
            : i \in DOMAIN EarlierForms }

-----------------------------------------------------------------------------
(* One session in use: the admin has just logged in, and the requests are  *)
(* those that present a token.                                             *)

InitRefresh ==
    /\ now = 0
    /\ advances = 0
    /\ users = SeededUsers
    /\ revoked = <<>>
    /\ LET out == login("admin", Plain("admin"), users, 0, 0 - 1)
       IN  issued = {out.val.access_token, out.val.refresh_token}
    /\ nextJti = 1
    /\ loggedOut = {}
    /\ resp = NoResp
    /\ houses = SeededHouses
    /\ assignments = SeededAssignments
    /\ taxRecords = SeededTaxRecords
    /\ insertedBy = SeededInsertedBy
    /\ pending = {}

(* The tokens presented: those of the session, those that login gave the   *)
(* user the present table lacks, a string that is no JWT and a forged JWT  *)
Orphaned == {t \in EarlierSessions(0) : t.claims["sub"] = "nobody"}

PresentedTokens == issued \cup Orphaned \cup {Malformed, Forged}

NextRefresh ==
    \/ \E t \in PresentedTokens : Refresh(t)
    \/ \E t \in PresentedTokens \cup {NoToken} : Logout(t)
    \/ \E t \in PresentedTokens \cup {NoToken} : CurrentUser(t)
    \/ Respond
    \/ \E d \in ClockSteps : Tick(d)

SpecRefresh == InitRefresh /\ [][NextRefresh]_vars

-----------------------------------------------------------------------------
(* Roles.  The user an earlier run registered has the ADMIN role only, no  *)
(* role, or the empty role string, and a password in bcrypt format, so     *)
(* that it can log in; the sessions are open as in InitStore, and the      *)
(* access tokens of the earlier database are presented as well: their      *)
(* context claim names roles the stored users do not have.                 *)
RoleRequests ==
    { UserPOSTRequest("new_user", Bcrypt(1, "pw"), "New User", Str(<<USER_ROLE_ADMIN>>), 987654321),
      UserPOSTRequest("new_user", Bcrypt(1, "pw"), "New User", None, 987654321),
      UserPOSTRequest("new_user", Bcrypt(1, "pw"), "New User", Str(<<>>), 987654321) }

InitRoles ==
    /\ now = Days(1)
    /\ advances = 1
    /\ \E userDetails \in RoleRequests : users = register(userDetails, SeededUsers).users
    /\ revoked = <<>>
    /\ issued = LoggedIn(users)
    /\ nextJti = 2 * Len(SessionForms) + 1
    /\ loggedOut = {}
    /\ resp = NoResp
    /\ houses = SeededHouses
    /\ assignments = SeededAssignments
    /\ taxRecords = SeededTaxRecords
    /\ insertedBy = SeededInsertedBy
    /\ pending = {}

RoleTokens ==
    AccessTokens \cup {t \in EarlierSessions(Days(1)) : t.key = ACCESS_SECRET_KEY}

NextRoles ==
    \/ \E t \in RoleTokens : CurrentAdmin(t)
    \/ \E t \in RoleTokens, taxData \in TaxBatches : InsertTaxRecords(t, taxData)
    \/ \E t \in RoleTokens, recordId \in RecordIds, updateData \in UpdateRequests :
           UpdateTaxRecordById(t, recordId, updateData)
    \/ Respond

SpecRoles == InitRoles /\ [][NextRoles]_vars

-----------------------------------------------------------------------------
(* The token codec on its own: one call of an encode method, then calls of *)
(* the decode methods on the token it returned.                            *)

(* A call of __encodeToken: the token it returns, and the caller's payload *)
(* dict after the call.  The method works on payload.copy().               *)
(* Variant: the method updates the dict it was given *)
encodeTokenCallNoCopy(payload, SECRET_KEY, expiresDelta, clock, jti) ==
    LET token == encodeToken(payload, SECRET_KEY, expiresDelta, clock, jti)
    IN  [token |-> token, payload |-> token.claims]

encodeTokenCall(payload, SECRET_KEY, expiresDelta, clock, jti) ==
    LET token == encodeToken(payload, SECRET_KEY, expiresDelta, clock, jti)
    IN  [token |-> token, payload |-> payload]

(* encodeAuthToken and encodeRefreshToken pass the secret of their class *)
SecretOf(tokenType) ==
    IF tokenType = ACCESS_TOKEN_TYPE THEN ACCESS_SECRET_KEY ELSE REFRESH_SECRET_KEY

TokenTypes == {ACCESS_TOKEN_TYPE, REFRESH_TOKEN_TYPE}

(* Claims maps: the empty dict, the two payloads login builds, and         *)
(* payloads that carry an exp, a jti or an aud claim of their own.         *)
CodecPayloads ==
    { <<>>,
      [sub |-> "admin"],
      tokenData(CHOOSE u \in SeededUsers : u.username = "admin"),
      [sub |-> "admin", exp |-> 1],
      [sub |-> "admin", jti |-> 0 - 5],
      [sub |-> "admin", aud |-> "clients"] }

(* expiresDelta: absent, the two lifetimes login uses, a negative one *)
ExpiresDeltas ==
    { 0, Minutes(ACCESS_TOKEN_EXPIRE_MINUTES), Days(REFRESH_TOKEN_EXPIRE_DAYS),
      0 - Minutes(1) }

InitCodec ==
    /\ now = Days(1)
    /\ advances = 0
    /\ users = SeededUsers
    /\ revoked = <<>>
    /\ issued = {}
    /\ nextJti = 0
    /\ loggedOut = {}
    /\ resp = NoResp
    /\ houses = SeededHouses
    /\ assignments = SeededAssignments
    /\ taxRecords = SeededTaxRecords
    /\ insertedBy = SeededInsertedBy
    /\ pending = {}

(* encodeAuthToken(payload, expiresDelta) or encodeRefreshToken(...) *)
EncodeCall(payload, tokenType, expiresDelta) ==
    /\ resp = NoResp
    /\ nextJti < MaxJti
    /\ LET out == encodeTokenCall(payload, SecretOf(tokenType), expiresDelta, now, nextJti)
       IN  resp' = Response("encodeToken",
                     [payload |-> payload, tokenType |-> tokenType,
                      expiresDelta |-> expiresDelta, clock |-> now, jti |-> nextJti],
                     Ok(out))
    /\ nextJti' = nextJti + 1
    /\ UNCHANGED <<now, advances, users, revoked, issued, loggedOut>>
    /\ UNCHANGED storeVars

(* decodeAuthToken(token) or decodeRefreshToken(token) on the token that   *)
(* the encode call returned                                                *)
DecodeCall(tokenType) ==
    /\ resp.op = "encodeToken"
    /\ LET token == resp.body.token
           payload == IF tokenType = ACCESS_TOKEN_TYPE
                      THEN decodeAuthToken(token, now)
                      ELSE decodeRefreshToken(token, now)
       IN  resp' = Response("decodeToken",
                     [encoded |-> resp.req, token |-> token, after |-> resp.body.payload,
                      tokenType |-> tokenType, clock |-> now],
                     Ok(payload))
    /\ UNCHANGED <<now, advances, users, revoked, issued, nextJti, loggedOut>>
    /\ UNCHANGED storeVars

(* Time passes between the encode call and the decode call *)
Wait(d) ==
    /\ resp.op = "encodeToken"
    /\ advances < MaxAdvances
    /\ now' = now + d
    /\ advances' = advances + 1
    /\ UNCHANGED <<users, revoked, issued, nextJti, loggedOut, resp>>
    /\ UNCHANGED storeVars

NextCodec ==
    \/ \E payload \in CodecPayloads, tokenType \in TokenTypes, expiresDelta \in ExpiresDeltas :
            EncodeCall(payload, tokenType, expiresDelta)
    \/ \E tokenType \in TokenTypes : DecodeCall(tokenType)
    \/ \E d \in ClockSteps : Wait(d)
    \/ Respond

SpecCodec == InitCodec /\ [][NextCodec]_vars

-----------------------------------------------------------------------------
(* Vocabulary of the properties *)

(* An access token this system issued, and its expiry in ticks *)
IssuedAccess(t) == t \in issued /\ t.key = ACCESS_SECRET_KEY
IssuedRefresh(t) == t \in issued /\ t.key = REFRESH_SECRET_KEY
ExpiryTick(t) == t.claims["exp"] * TicksPerSec

(* The step that handles a request: the server was idle and now holds the  *)
(* response to a request of the given operation.                           *)
Handles(op) == resp = NoResp /\ resp'.op = op

-----------------------------------------------------------------------------
(* C1: once logout(t) has succeeded for an access token t, every later     *)
(* getCurrentUser(t) is answered 401, before t's expiry as well as after.  *)
C1_RevokedTokenRejected ==
    (resp.op = "getCurrentUser" /\ resp.req.token \in loggedOut) => resp.status = 401

(* C2: a logout of a valid, unexpired access token for which an earlier    *)
(* logout already succeeded succeeds again with the same message, and the  *)
(* revocation table then holds the token's jti exactly once.               *)
C2_LogoutIdempotent ==
    [][ ( /\ Handles("logout")
          /\ resp'.req.token \in loggedOut
          /\ IssuedAccess(resp'.req.token)
          /\ now < ExpiryTick(resp'.req.token) )
        => ( /\ resp'.status = 200
             /\ resp'.body = [message |-> LOGGED_OUT_SUCCESSFULLY]
             /\ CountJti(revoked', resp'.req.token.claims["jti"]) = 1 ) ]_vars

(* The password a principal was created with: the plaintext createUserData *)
(* hashed for a seeded user, the password of the register request for a    *)
(* registered one (register stores the request's password field as it is). *)
CreatedWith(u) == IF u \in SeededUsers THEN Plain(u.password.text) ELSE u.password

StoredUser(username) == CHOOSE u \in users : u.username = username

(* C3: for every principal of the store, seeded or registered, login with  *)
(* the password it was created with succeeds, and getCurrentUser on the    *)
(* returned access token returns the principal with the same username,     *)
(* right after the login and at any request before the token's expiry.     *)
C3_LoginThenResolve ==
    /\ ( /\ resp.op = "login"
         /\ \E u \in users : /\ u.username = resp.req.username
                             /\ resp.req.password = CreatedWith(u) )
       => ( /\ resp.status = 200
            /\ ~getCurrentUser(resp.body.access_token, users, now).raised
            /\ getCurrentUser(resp.body.access_token, users, now).val.username
                   = resp.req.username )
    /\ ( /\ resp.op = "getCurrentUser"
         /\ IssuedAccess(resp.req.token)
         /\ Has(resp.req.token.claims, "context")
         /\ now < ExpiryTick(resp.req.token) )
       => ( /\ resp.status = 200
            /\ resp.body.username = resp.req.token.claims["sub"] )

(* C4: a successful login returns token_type Bearer, an access and a       *)
(* refresh token, and the stored principal's username, name, phone and     *)
(* userRole; the access token's claims are sub = username and context =    *)
(* {user: {key: username, phone}, roles: userRole} of the stored principal.*)
C4_LoginResponse ==
    (resp.op = "login" /\ resp.status = 200) =>
        /\ \E u \in users : u.username = resp.req.username
        /\ LET u == StoredUser(resp.req.username)
               access == resp.body.access_token
           IN  /\ resp.body.token_type = "Bearer"
               /\ access.jwt /\ access.key = ACCESS_SECRET_KEY
               /\ resp.body.refresh_token.jwt
               /\ resp.body.refresh_token.key = REFRESH_SECRET_KEY
               /\ resp.body.username = u.username
               /\ resp.body.name = u.name
               /\ resp.body.phone = u.phone
               /\ resp.body.userRole = u.userRole
               /\ access.claims["sub"] = u.username
               /\ access.claims["context"] =
                      [user |-> [key |-> u.username, phone |-> u.phone],
                       roles |-> u.userRole]

C4_Witness ==
    /\ resp.op = "login"
    /\ resp.status = 200
    /\ resp.body.username = "collector"

(* C5: login fails uniformly: with a username no principal has, and with   *)
(* the username of a principal (seeded or registered) and a password that  *)
(* is not the principal's, the answer is 401 'Incorrect username or        *)
(* password' without tokens.                                               *)
C5_LoginFailsUniformly ==
    ( /\ resp.op = "login"
      /\ \/ ~\E u \in users : u.username = resp.req.username
         \/ \E u \in users :
              /\ u.username = resp.req.username
              /\ resp.req.password # CreatedWith(u)
              /\ resp.req.password # Plain(u.password.text) )
    => ( /\ resp.status = 401
         /\ resp.detail = INVALID_CREDENTIALS
         /\ resp.body = NoVal )

(* C6: a token this system issued, presented for validation in its own     *)
(* class after its exp has passed, is refused with 401 'Token expired',    *)
(* not with 'Could not validate credentials'.                              *)
C6_ExpiredTokenError ==
    /\ ( /\ resp.op \in {"getCurrentUser", "logout"}
         /\ IssuedAccess(resp.req.token)
         /\ ExpiryTick(resp.req.token) < now )
       => (resp.status = 401 /\ resp.detail = TOKEN_EXPIRED)
    /\ ( /\ resp.op = "refresh"
         /\ IssuedRefresh(resp.req.token)
         /\ ExpiryTick(resp.req.token) < now )
       => (resp.status = 401 /\ resp.detail = TOKEN_EXPIRED)

(* C7: the access token refresh returns carries the claims login issues:   *)
(* sub and the context {user: {key, phone}, roles} of the principal as it  *)
(* is stored at the time of the refresh.                                   *)
C7_RefreshCarriesContext ==
    (resp.op = "refresh" /\ resp.status = 200) =>
        LET claims == resp.body.access_token.claims
            u == StoredUser(resp.req.token.claims["sub"])
        IN  /\ claims["sub"] = u.username
            /\ Has(claims, "context")
            /\ claims["context"] = tokenData(u).context

(* C8: refresh with a string that does not decode under the refresh secret *)
(* (not a JWT, or signed with another key) is answered 401 'Could not      *)
(* validate credentials', issues no access token and changes no store.     *)
Undecodable(t, key) == ~t.jwt \/ t.key # key

C8_RefreshInvalid ==
    [][ (Handles("refresh") /\ Undecodable(resp'.req.token, REFRESH_SECRET_KEY))
        => ( /\ resp'.status = 401
             /\ resp'.detail = COULD_NOT_VALIDATE_CREDENTIALS
             /\ resp'.body = NoVal
             /\ UNCHANGED <<users, revoked, issued, nextJti>> ) ]_vars

C8_Witness ==
    /\ resp.op = "refresh"
    /\ resp.req.token = Malformed
    /\ resp.status = 401

(* C9: for every principal getCurrentUser resolves, getCurrentAdmin either *)
(* returns that principal (ADMIN is one of the comma-separated labels of   *)
(* its stored userRole) or fails with 403 'Not enough permissions' (every  *)
(* other userRole, the empty and the absent one included).                 *)
Labels(userRole) == IF userRole.none THEN {} ELSE Range(split(userRole))

C9_AdminGuardOutcomes ==
    ( /\ resp.op = "getCurrentAdmin"
      /\ ~currentUserDep(resp.req.token, users, now).raised )
    => LET u == StoredUser(resp.req.token.claims["sub"])
       IN  IF <<USER_ROLE_ADMIN>> \in Labels(u.userRole)
           THEN resp.status = 200 /\ resp.body = u
           ELSE resp.status = 403 /\ resp.detail = INSUFFICIENT_PERMISSIONS

(* C10: register with a username that is in the user table is answered 400 *)
(* 'Username already registered' and leaves the table and the other stores *)
(* as they were; the table never holds two principals with one username.   *)
UniqueUsernames == \A u1, u2 \in users : u1.username = u2.username => u1 = u2

C10_RegisterDuplicate ==
    /\ []UniqueUsernames
    /\ [][ ( /\ Handles("register")
             /\ ~currentAdminDep(resp'.req.token, users, now).raised
             /\ \E u \in users : u.username = resp'.req.userDetails.username )
           => ( /\ resp'.status = 400
                /\ resp'.detail = USERNAME_ALREADY_REGISTERED
                /\ UNCHANGED <<users, revoked, issued, nextJti>> ) ]_vars

C10_Witness ==
    /\ resp.op = "register"
    /\ resp.status = 400
    /\ resp.req.userDetails.username = "admin"
    /\ \E u \in users : u.username = "admin" /\ u.name = "Admin"

(* C12: token classes are not interchangeable: a refresh token that login  *)
(* issued, sent to getCurrentUser or logout, and an access token that      *)
(* login or refresh issued, sent to refresh, is answered 401 with the      *)
(* status, detail and body a forged token gets; no logout of a refresh     *)
(* token ever succeeds.                                                    *)
AsForged(r, forged) ==
    /\ r.status = 401
    /\ r.status = forged.status
    /\ r.detail = forged.detail
    /\ r.body = forged.val

C12_TokenClassesSeparate ==
    /\ ( resp.op = "getCurrentUser" /\ IssuedRefresh(resp.req.token) )
       => AsForged(resp, currentUserDep(Forged, users, now))
    /\ ( resp.op = "logout" /\ IssuedRefresh(resp.req.token) )
       => AsForged(resp, currentUserDep(Forged, users, now))
    /\ ( resp.op = "refresh" /\ IssuedAccess(resp.req.token) )
       => AsForged(resp, refreshToken(Forged, users, now, nextJti))
    /\ \A t \in loggedOut : ~IssuedRefresh(t)

C12_Witness ==
    /\ resp.op = "refresh"
    /\ IssuedAccess(resp.req.token)
    /\ ~Has(resp.req.token.claims, "context")
    /\ resp.status = 401
    /\ \E t \in issued : IssuedRefresh(t) /\ now < ExpiryTick(t)

(* C14: two access tokens issued to one principal (by logins or by         *)
(* refresh) have different jtis, and an access token that has not been     *)
(* logged out itself is accepted by getCurrentUser at every request before *)
(* its own expiry, whichever other tokens of the principal were logged out.*)
SamePrincipal(t1, t2) == t1.claims["sub"] = t2.claims["sub"]

C14_SessionsIndependent ==
    /\ \A t1, t2 \in issued :
         ( IssuedAccess(t1) /\ IssuedAccess(t2) /\ t1 # t2 /\ SamePrincipal(t1, t2) )
         => t1.claims["jti"] # t2.claims["jti"]
    /\ ( /\ resp.op = "getCurrentUser"
         /\ IssuedAccess(resp.req.token)
         /\ resp.req.token \notin loggedOut
         /\ now < ExpiryTick(resp.req.token) )
       => ( /\ resp.status = 200
            /\ resp.body.username = resp.req.token.claims["sub"] )

C14_Witness ==
    /\ resp.op = "getCurrentUser"
    /\ resp.status = 200
    /\ IssuedAccess(resp.req.token)
    /\ resp.req.token \notin loggedOut
    /\ \E t \in loggedOut : /\ IssuedAccess(t)
                            /\ SamePrincipal(t, resp.req.token)
                            /\ now < ExpiryTick(t)

(* C18: the password stored with a principal is the output of the password *)
(* hash function: it is for the seeded principals, and the row a           *)
(* successful register adds holds a hash, not the password as submitted.   *)
C18_PasswordsHashed ==
    /\ [](\A u \in users : u \in SeededUsers => u.password.bcrypt)
    /\ [][ ( Handles("register") /\ resp'.status = 200 )
           => \A u \in users' :
                u.username = resp'.req.userDetails.username
                => ( /\ u.password.bcrypt
                     /\ u.password # resp'.req.userDetails.password ) ]_vars

(* C19: a token this system issued is refused (401) by getCurrentUser,     *)
(* logout and refresh at every time at or after its exp, the instant       *)
(* now = exp included; it is accepted only while now is before exp.        *)
C19_ExpiryBoundary ==
    /\ ( /\ resp.op \in {"getCurrentUser", "logout"}
         /\ IssuedAccess(resp.req.token)
         /\ now >= ExpiryTick(resp.req.token) )
       => resp.status = 401
    /\ ( /\ resp.op = "refresh"
         /\ IssuedRefresh(resp.req.token)
         /\ now >= ExpiryTick(resp.req.token) )
       => resp.status = 401

Stores == <<users, revoked, houses, assignments, taxRecords>>

HandlesRequest == resp = NoResp /\ resp' # NoResp

C11_WritesNeedAcceptedToken ==
    [][ /\ Stores' # Stores
           => ( /\ HandlesRequest
                /\ ~currentUserDep(resp'.req.token, users, now).raised
                /\ resp'.op \in {"register", "assignVolunteer"}
                   => ~getCurrentAdmin(
                          currentUserDep(resp'.req.token, users, now).val).raised )
        /\ ( HandlesRequest /\ resp'.req.token = NoToken )
           => ( resp'.status = 401 /\ Stores' = Stores ) ]_vars

C11_Witness ==
    /\ resp.op = "insertTaxRecords"
    /\ resp.req.token = NoToken
    /\ resp.status = 401
    /\ Len(assignments) = 2
    /\ Len(taxRecords) = 2
    /\ Len(revoked) = 1
    /\ Cardinality(houses) = 3
    /\ taxRecords[1].amount = 6000
    /\ \E u \in users : u.username = "new_user"

(* C13: when logout requests for the same valid access token run           *)
(* concurrently (each has validated the token before the other has         *)
(* committed its revocation record), each of them is answered 200 with the *)
(* logout message and the revocation table then holds the token's jti.     *)
C13_ConcurrentLogout ==
    [][ \A p \in pending :
          ( /\ p.raced
            /\ resp = NoResp
            /\ resp'.op = "logout"
            /\ pending' = pending \ {p} )
          => ( /\ resp'.status = 200
               /\ resp'.body = [message |-> LOGGED_OUT_SUCCESSFULLY]
               /\ CountJti(revoked', p.jti) = 1 ) ]_vars

(* The caller a request's token resolves to, and the houses a user has an  *)
(* assignment for                                                          *)
Caller(token) == currentUserDep(token, users, now)
AssignedTo(username) ==
    {assignments[i].houseId : i \in {j \in DOMAIN assignments :
                                         assignments[j].username = username}}

(* C15: insertTaxRecords by a caller with the COLLECTOR role and without   *)
(* the ADMIN role: if a record of the batch names a house the caller has   *)
(* no assignment for, the answer is 403 'You are not assigned to this      *)
(* household' and the tax record table is unchanged; otherwise the answer  *)
(* is 200 and the table is extended by one row per record of the batch,    *)
(* in order, with the record's amount, houseId and collectorId.            *)
C15_InsertAllOrNothing ==
    [][ ( /\ Handles("insertTaxRecords")
          /\ ~Caller(resp'.req.token).raised
          /\ <<USER_ROLE_COLLECTOR>> \in Labels(Caller(resp'.req.token).val.userRole)
          /\ <<USER_ROLE_ADMIN>> \notin Labels(Caller(resp'.req.token).val.userRole) )
        => LET taxData == resp'.req.taxData
               assigned == AssignedTo(Caller(resp'.req.token).val.username)
           IN  IF \E i \in DOMAIN taxData : taxData[i].houseId \notin assigned
               THEN /\ resp'.status = 403
                    /\ resp'.detail = INCORRECT_HOUSE_MAPPING
                    /\ taxRecords' = taxRecords
               ELSE /\ resp'.status = 200
                    /\ Len(taxRecords') = Len(taxRecords) + Len(taxData)
                    /\ SubSeq(taxRecords', 1, Len(taxRecords)) = taxRecords
                    /\ \A i \in DOMAIN taxData :
                         LET row == taxRecords'[Len(taxRecords) + i]
                         IN  /\ row.amount = taxData[i].amount
                             /\ row.houseId = taxData[i].houseId
                             /\ row.collectorId = taxData[i].collectorId ]_vars

C15_Witness ==
    /\ resp.op = "insertTaxRecords"
    /\ resp.status = 200
    /\ Len(resp.req.taxData) = 2
    /\ ~Caller(resp.req.token).raised
    /\ Caller(resp.req.token).val.username = "collector"
    /\ Len(taxRecords) = 3

(* C16: for a caller without the ADMIN role (its userRole a string),       *)
(* updateTaxRecordById of an existing record succeeds only if the caller   *)
(* is the one whose request inserted the record; every other such caller   *)
(* is refused with 401 'Not enough permissions' and the record table is    *)
(* unchanged.                                                              *)
C16_UpdateOnlyByCreator ==
    [][ ( /\ Handles("updateTaxRecordById")
          /\ ~Caller(resp'.req.token).raised
          /\ ~Caller(resp'.req.token).val.userRole.none
          /\ <<USER_ROLE_ADMIN>> \notin Labels(Caller(resp'.req.token).val.userRole)
          /\ resp'.req.recordId \in DOMAIN insertedBy
          /\ insertedBy[resp'.req.recordId] # Caller(resp'.req.token).val.username )
        => ( /\ resp'.status = 401
             /\ resp'.detail = INSUFFICIENT_PERMISSIONS
             /\ taxRecords' = taxRecords ) ]_vars

(* C17: assignVolunteer by an admin: an unknown username is answered 400   *)
(* 'Invalid volunteer details' (also when the house is unknown too), a     *)
(* known username with an unknown house 400 'Invalid house number', both   *)
(* without adding an assignment; otherwise the assignment is added.  Every *)
(* assignment of the table names an existing user and an existing house.   *)
AssignmentsReferToRows ==
    \A i \in DOMAIN assignments :
        /\ \E u \in users : u.username = assignments[i].username
        /\ \E h \in houses : h.houseNumber = assignments[i].houseId

C17_AssignNeedsUserAndHouse ==
    /\ []AssignmentsReferToRows
    /\ [][ ( /\ Handles("assignVolunteer")
             /\ ~currentAdminDep(resp'.req.token, users, now).raised )
           => LET a == resp'.req.assignment
              IN  IF ~\E u \in users : u.username = a.username
                  THEN /\ resp'.status = 400
                       /\ resp'.detail = INVALID_VOLUNTEER_DETAILS
                       /\ assignments' = assignments
                  ELSE IF ~\E h \in houses : h.houseNumber = a.houseId
                  THEN /\ resp'.status = 400
                       /\ resp'.detail = INVALID_HOUSE_NUMBER
                       /\ assignments' = assignments
                  ELSE /\ resp'.status = 200
                       /\ Len(assignments') = Len(assignments) + 1
                       /\ assignments'[Len(assignments')].houseId = a.houseId
                       /\ assignments'[Len(assignments')].username = a.username ]_vars

C17_Witness ==
    /\ resp.op = "assignVolunteer"
    /\ resp.status = 400
    /\ resp.detail = INVALID_HOUSE_NUMBER
    /\ resp.req.assignment.username = "collector"
    /\ Len(assignments) = 2

(* C21: refresh with a string that fails structural, signature or expiry   *)
(* validation as a refresh token (no JWT, signed with another key, or a    *)
(* refresh token whose exp has passed) is answered 401 'Invalid refresh    *)
(* token'; refresh with a valid, unexpired refresh token whose sub names   *)
(* no stored principal is answered 401 'User not found'.                   *)
RefreshSigned(t) == t.jwt /\ t.key = REFRESH_SECRET_KEY

C21_RefreshErrors ==
    /\ ( /\ resp.op = "refresh"
         /\ \/ Undecodable(resp.req.token, REFRESH_SECRET_KEY)
            \/ RefreshSigned(resp.req.token) /\ ExpiryTick(resp.req.token) < now )
       => ( resp.status = 401 /\ resp.detail = INVALID_REFRESH_TOKEN )
    /\ ( /\ resp.op = "refresh"
         /\ RefreshSigned(resp.req.token)
         /\ now < ExpiryTick(resp.req.token)
         /\ ~\E u \in users : u.username = resp.req.token.claims["sub"] )
       => ( resp.status = 401 /\ resp.detail = USER_NOT_FOUND )

(* C22: logout with a token that does not validate as an access token is   *)
(* answered 401 and leaves the revocation table unchanged: with 'Not       *)
(* authenticated' when the request has no token, with 'Could not validate  *)
(* credentials' for a string that is no JWT, a JWT not signed with the     *)
(* access secret (a forged one, a refresh token) and an access token whose *)
(* sub names no stored principal, and with one of the two messages of      *)
(* tokenValidation ('Could not validate credentials', 'Token expired') for *)
(* an access token whose exp has passed.                                   *)
AccessSigned(t) == t.jwt /\ t.key = ACCESS_SECRET_KEY

C23_TokenLifetimes ==
    /\ []( ( /\ resp.op = "getCurrentUser"
             /\ IssuedAccess(resp.req.token)
             /\ now > ExpiryTick(resp.req.token) )
           => resp.status = 401 )
    /\ []( ( /\ resp.op = "refresh"
             /\ IssuedRefresh(resp.req.token)
             /\ now > ExpiryTick(resp.req.token) )
           => resp.status = 401 )
    /\ [][ ( Handles("login") /\ resp'.status = 200 )
           => ( /\ ExpiryTick(resp'.body.access_token)
                     <= now + Minutes(ACCESS_TOKEN_EXPIRE_MINUTES)
                /\ ExpiryTick(resp'.body.refresh_token)
                     <= now + Days(REFRESH_TOKEN_EXPIRE_DAYS)
                /\ issued' = issued \cup {resp'.body.access_token,
                                           resp'.body.refresh_token} ) ]_vars
    /\ [][ ( Handles("refresh") /\ resp'.status = 200 )
           => ( /\ ExpiryTick(resp'.body.access_token)
                     <= now + Minutes(ACCESS_TOKEN_EXPIRE_MINUTES)
                /\ issued' = issued \cup {resp'.body.access_token} ) ]_vars
    /\ [][ ( resp'.op \notin {"login", "refresh"} \/ resp'.status # 200 )
           => issued' = issued ]_vars

C23_Witness ==
    /\ resp.op = "refresh"
    /\ IssuedRefresh(resp.req.token)
    /\ now > ExpiryTick(resp.req.token)
    /\ resp.status = 401
    /\ \E t \in issued : IssuedAccess(t) /\ ~Has(t.claims, "context")

(* C24: authorization is decided from the user table at the time of the    *)
(* request.  For an unexpired access token whose sub is a stored user with *)
(* a userRole string, whatever roles the context claim of the token        *)
(* names: getCurrentAdmin succeeds exactly if ADMIN is a label of the      *)
(* stored userRole; insertTaxRecords is answered 'Only collectors can      *)
(* record tax collection' exactly if COLLECTOR is not a label of it, and   *)
(* 'You are not assigned to this household' only if ADMIN is not;          *)
(* updateTaxRecordById of an existing record by a user who is not its      *)
(* collectorId succeeds exactly if ADMIN is a label of the stored userRole.*)
StoredRoles(token) == Labels(StoredUser(token.claims["sub"]).userRole)

RoleDecided(token) ==
    /\ ~Caller(token).raised
    /\ ~Caller(token).val.userRole.none

C24_RolesFromStore ==
    [][ /\ ( Handles("getCurrentAdmin") /\ RoleDecided(resp'.req.token) )
           => ( /\ resp'.status = 200 <=> <<USER_ROLE_ADMIN>> \in StoredRoles(resp'.req.token)
                /\ resp'.status \in {200, 403} )
        /\ ( Handles("insertTaxRecords") /\ RoleDecided(resp'.req.token) )
           => ( /\ ( resp'.status = 403 /\ resp'.detail = ONLY_COLLECTORS_RECORD_TAX_COLLECTION )
                   <=> <<USER_ROLE_COLLECTOR>> \notin StoredRoles(resp'.req.token)
                /\ ( resp'.status = 403 /\ resp'.detail = INCORRECT_HOUSE_MAPPING )
                   => <<USER_ROLE_ADMIN>> \notin StoredRoles(resp'.req.token)
                /\ ( /\ <<USER_ROLE_COLLECTOR>> \in StoredRoles(resp'.req.token)
                     /\ <<USER_ROLE_ADMIN>> \in StoredRoles(resp'.req.token) )
                   => resp'.status = 200 )
        /\ ( /\ Handles("updateTaxRecordById")
             /\ RoleDecided(resp'.req.token)
             /\ getTaxRecordById(resp'.req.recordId, taxRecords).found
             /\ taxRecords[getTaxRecordById(resp'.req.recordId, taxRecords).at].collectorId
                    # resp'.req.token.claims["sub"] )
           => ( resp'.status = 200 <=> <<USER_ROLE_ADMIN>> \in StoredRoles(resp'.req.token) )
      ]_vars

C24_Witness ==
    /\ resp.op = "getCurrentAdmin"
    /\ resp.status = 403
    /\ AccessSigned(resp.req.token)
    /\ <<USER_ROLE_ADMIN>> \in Labels(resp.req.token.claims["context"].roles)
    /\ \E t \in AccessTokens :
          /\ t # NoToken
          /\ t.claims["sub"] = "admin"
          /\ now < ExpiryTick(t)

(* C25: login (with authenticateUser), refresh, getCurrentUser and         *)
(* getCurrentAdmin leave the user table and the revocation table as they   *)
(* were, whether they succeed or fail; the revocation table only grows,    *)
(* and a step adds to it only if it is a successful logout, which adds one *)
(* row: the jti of the token of the request.                               *)
C25_FrameOfAuth ==
    [][ /\ ( HandlesRequest
             /\ resp'.op \in {"login", "refresh", "getCurrentUser", "getCurrentAdmin"} )
           => ( users' = users /\ revoked' = revoked )
        /\ Len(revoked') >= Len(revoked)
        /\ SubSeq(revoked', 1, Len(revoked)) = revoked
        /\ revoked' # revoked
           => ( /\ Handles("logout")
                /\ resp'.status = 200
                /\ revoked' = Append(revoked, [jti |-> resp'.req.token.claims["jti"]]) )
        /\ ( Handles("logout") /\ resp'.status = 200 )
           => revoked' = Append(revoked, [jti |-> resp'.req.token.claims["jti"]])
      ]_vars

C25_Witness ==
    /\ resp.op = "logout"
    /\ resp.status = 200
    /\ Len(revoked) = 2
    /\ revoked[2].jti = resp.req.token.claims["jti"]
    /\ \E u \in users : u.username = "new_user"

(* C26: logout does not end the refresh capability.  Whatever tokens have  *)
(* been logged out and however often the refresh token was used before, a  *)
(* refresh with a refresh token that login issued, at a time before its    *)
(* exp, is answered 200 with a new access token whose jti differs from the *)
(* jti of every access token issued before and which getCurrentUser        *)
(* accepts for the principal of the refresh token.                         *)
C26_RefreshAfterLogout ==
    [][ ( /\ Handles("refresh")
          /\ IssuedRefresh(resp'.req.token)
          /\ now < ExpiryTick(resp'.req.token) )
        => ( /\ resp'.status = 200
             /\ AccessSigned(resp'.body.access_token)
             /\ resp'.body.access_token \notin issued
             /\ \A a \in issued :
                   IssuedAccess(a) =>
                       a.claims["jti"] # resp'.body.access_token.claims["jti"]
             /\ ~getCurrentUser(resp'.body.access_token, users', now').raised
             /\ getCurrentUser(resp'.body.access_token, users', now').val.username
                    = resp'.req.token.claims["sub"] ) ]_vars

C26_Witness ==
    /\ resp.op = "refresh"
    /\ resp.status = 200
    /\ \E a \in loggedOut : IssuedAccess(a) /\ Has(a.claims, "context")
    /\ Cardinality({t \in issued : IssuedAccess(t) /\ ~Has(t.claims, "context")}) >= 2
    /\ now > 0

(* C27: when register requests for the same new username run concurrently  *)
(* (each has made its existence check before the other has committed),     *)
(* the one that commits while the username is free creates the principal,  *)
(* the other is answered 400 'Username already registered', never with an  *)
(* unhandled storage error, and the table then holds one principal of that *)
(* username.                                                               *)
C27_ConcurrentRegister ==
    [][ \A p \in pending :
          ( /\ p.raced
            /\ resp = NoResp
            /\ resp'.op = "register"
            /\ pending' = pending \ {p} )
          => ( /\ resp'.status = 200
                  <=> ~\E u \in users : u.username = p.userDetails.username
               /\ resp'.status # 200
                  => ( /\ resp'.status = 400
                       /\ resp'.detail = USERNAME_ALREADY_REGISTERED )
               /\ Cardinality({u \in users' :
                                  u.username = p.userDetails.username}) = 1 ) ]_vars

(* C28: an updateTaxRecordById(recordId, updateData) answered 200 changes   *)
(* at most the amount of the record with that id: the amount becomes       *)
(* updateData.amount, or stays when that is null; the record's id (also    *)
(* when the body names another id), houseId and collectorId, every other   *)
(* tax record and every other table are unchanged.  For an id no record    *)
(* has, every authenticated caller is answered 404 'Record not found' and  *)
(* nothing changes.                                                        *)
C28_UpdateFrame ==
    [][ Handles("updateTaxRecordById") =>
          LET recordId == resp'.req.recordId
              updateData == resp'.req.updateData
              t == getTaxRecordById(recordId, taxRecords)
          IN  /\ UNCHANGED <<users, revoked, houses, assignments>>
              /\ resp'.status = 200
                 => ( /\ t.found
                      /\ taxRecords' =
                             [taxRecords EXCEPT ![t.at].amount =
                                 IF updateData.amount.none THEN @
                                 ELSE updateData.amount.val]
                      /\ resp'.body = taxRecords'[t.at]
                      /\ resp'.body.id = recordId )
              /\ resp'.status # 200 => taxRecords' = taxRecords
              /\ ( ~t.found /\ ~Caller(resp'.req.token).raised )
                 => ( /\ resp'.status = 404
                      /\ resp'.detail = RECORD_NOT_FOUND ) ]_vars

C28_Witness ==
    /\ resp.op = "updateTaxRecordById"
    /\ resp.status = 200
    /\ resp.req.recordId = 1
    /\ resp.req.updateData = TaxRecordPUTRequest(NoId, NoAmount)
    /\ Len(taxRecords) >= 2
    /\ taxRecords[1].amount = 6000
    /\ taxRecords[2].amount = 500

(* C29: insertTaxRecords by a caller whose stored roles do not contain     *)
(* COLLECTOR (a caller with the ADMIN role only, with the empty role       *)
(* string, or without a userRole) is answered 403 'Only collectors can     *)
(* record tax collection' and inserts nothing; a caller with both ADMIN    *)
(* and COLLECTOR inserts the records of the batch for any house, assigned  *)
(* to it or not.                                                           *)
C29_OnlyCollectorsInsert ==
    [][ ( Handles("insertTaxRecords") /\ ~Caller(resp'.req.token).raised )
        => LET roles == Labels(Caller(resp'.req.token).val.userRole)
           IN  /\ <<USER_ROLE_COLLECTOR>> \notin roles
                  => ( /\ resp'.status = 403
                       /\ resp'.detail = ONLY_COLLECTORS_RECORD_TAX_COLLECTION
                       /\ taxRecords' = taxRecords )
               /\ ( <<USER_ROLE_COLLECTOR>> \in roles /\ <<USER_ROLE_ADMIN>> \in roles )
                  => ( /\ resp'.status = 200
                       /\ Len(taxRecords') = Len(taxRecords) + Len(resp'.req.taxData) )
      ]_vars

(* C30: token round trip.  For every claims map and each token class,      *)
(* decoding the encoded token with the secret of the same class yields     *)
(* every original claim with its original value, and an exp and a jti;     *)
(* decoding it with the secret of the other class yields None; the         *)
(* caller's claims map is the same after the encode call.                  *)
Decodes == resp.op = "encodeToken" /\ resp'.op = "decodeToken"

OwnClaims(payload) == DOMAIN payload \cap {"exp", "jti", "aud"}

====
